---- MODULE Spec2Model ----
(***************************************************************************)
(* Model of cw2/cw_config/conf_unfolder.py: the expansion of experiment    *)
(* templates (grid, list, grid+list, ablative) into concrete configs, the  *)
(* naming of the expanded configs, and the unrolling of repetitions.       *)
(*                                                                         *)
(* Strings are sequences of one-character strings, so that the substring   *)
(* test of extend_config_name and the '{:02d}' format are computed.        *)
(* A config (a python dict) is a function from key names to values; a key  *)
(* is present iff it is in the DOMAIN.  A sweep block (grid/list/ablative) *)
(* is an ordered nested mapping: a sequence of entries [k, leaf] or        *)
(* [k, sub].  `params` is a nested mapping that is only ever written by    *)
(* key-path, and is kept as a function from leaf key-paths to values.      *)
(***************************************************************************)
EXTENDS Integers, Sequences, FiniteSets, TLC

VARIABLES
    templates,             \* _experiment_configs, the argument of expand_experiments
    experiment_configs,    \* the deep copy that the driver iterates and extends
    idx,                   \* position of the for loop in experiment_configs
    expanded_config_list,  \* accumulated expansion
    warnings,              \* the logger: names the warning was emitted for
    pc,                    \* "loop", "done" ("idle" in SpecUnroll)
    result,                \* return value of expand_experiments
    exp_configs,           \* argument of a direct call of unroll_exp_reps
    once,                  \* unroll_exp_reps(exp_configs)
    twice,                 \* unroll_exp_reps(unroll_exp_reps(exp_configs))
    upc                    \* "start", "once", "twice" ("idle" in Spec)

vars == <<templates, experiment_configs, idx, expanded_config_list, warnings,
          pc, result, exp_configs, once, twice, upc>>

(***************************************************************************)
(* Bounds                                                                  *)
(***************************************************************************)
MaxGridLen == 2      \* longest candidate list of a grid key-path
MaxListLen == 2      \* longest value list of a list key-path
MaxAblLen == 2       \* longest candidate list of an ablative key-path
MaxReps == 2         \* largest small repetition count (11 is always included)
MaxConfigs == 2      \* longest argument list of a direct unroll_exp_reps call

(***************************************************************************)
(* Strings                                                                 *)
(***************************************************************************)
Min(a, b) == IF a < b THEN a ELSE b

DigitChars == <<"0", "1", "2", "3", "4", "5", "6", "7", "8", "9">>

RECURSIVE Str(_)
\* str(n) / '{}'.format(n) for a natural number
Str(n) == IF n < 10 THEN <<DigitChars[n + 1]>>
          ELSE Str(n \div 10) \o <<DigitChars[(n % 10) + 1]>>

\* '{:02d}'.format(r): at least two digits, padded with zeros
Pad2(r) == IF Len(Str(r)) < 2 THEN <<"0">> \o Str(r) ELSE Str(r)

\* python `sub in s` for strings
Contains(s, sub) ==
    \E k \in 0..(Len(s) - Len(sub)) : SubSeq(s, k + 1, k + Len(sub)) = sub

RECURSIVE Join(_, _)
\* sep.join(parts)
Join(sep, parts) ==
    IF parts = <<>> THEN <<>>
    ELSE IF Len(parts) = 1 THEN parts[1]
    ELSE parts[1] \o sep \o Join(sep, Tail(parts))

RECURSIVE Concat(_)
\* concatenation of a sequence of sequences
Concat(ss) == IF ss = <<>> THEN <<>> ELSE Head(ss) \o Concat(Tail(ss))

(***************************************************************************)
(* Dicts                                                                   *)
(***************************************************************************)
Has(config, k) == k \in DOMAIN config
Set(config, k, v) == (k :> v) @@ config
Del(config, k) == [x \in DOMAIN config \ {k} |-> config[x]]

IsPrefix(t, p) == Len(t) <= Len(p) /\ SubSeq(p, 1, Len(t)) = t

\* util.insert_deep_dictionary(d, t, value): creates intermediate levels,
\* overwrites what is stored at key-path t (a leaf or a whole subtree)
insert_deep_dictionary(d, t, value) ==
    (t :> value) @@ [p \in {q \in DOMAIN d : ~IsPrefix(t, q)} |-> d[p]]

RECURSIVE flatten_dict_to_tuple_keys(_)
\* util.flatten_dict_to_tuple_keys(d): ordered map key-path -> list of values,
\* as a sequence of [key, vals] in the insertion order of the nested mapping
flatten_dict_to_tuple_keys(d) ==
    IF d = <<>> THEN <<>>
    ELSE LET e == Head(d)
             here == IF "sub" \in DOMAIN e
                     THEN LET sub_dict == flatten_dict_to_tuple_keys(e.sub)
                          IN [n \in 1..Len(sub_dict) |->
                                [key |-> <<e.k>> \o sub_dict[n].key,
                                 vals |-> sub_dict[n].vals]]
                     ELSE << [key |-> <<e.k>>, vals |-> e.leaf] >>
         IN here \o flatten_dict_to_tuple_keys(Tail(d))

Values(tuple_dict) == [n \in 1..Len(tuple_dict) |-> tuple_dict[n].vals]

\* '.'.join(t) for every key-path t of the flattened block
ParamNames(tuple_dict) ==
    [n \in 1..Len(tuple_dict) |-> Join(<<".">>, tuple_dict[n].key)]

(***************************************************************************)
(* itertools.product and zip                                               *)
(***************************************************************************)
RECURSIVE Product(_)
\* itertools.product(*lists): the first list varies slowest
Product(lists) ==
    IF lists = <<>> THEN << <<>> >>
    ELSE LET rest == Product(Tail(lists))
             first == Head(lists)
         IN Concat([a \in 1..Len(first) |->
                      [b \in 1..Len(rest) |-> <<first[a]>> \o rest[b]]])

RECURSIVE MinLen(_)
MinLen(lists) ==
    IF Len(lists) = 1 THEN Len(lists[1])
    ELSE Min(Len(Head(lists)), MinLen(Tail(lists)))

\* zip(*lists): stops at the shortest list; zip() of no list is empty
Zip(lists) ==
    IF lists = <<>> THEN <<>>
    ELSE [a \in 1..MinLen(lists) |-> [b \in 1..Len(lists) |-> lists[b][a]]]

IterFunc(iter_func, lists) ==
    IF iter_func = "product" THEN Product(lists) ELSE Zip(lists)

(***************************************************************************)
(* Name Synthesizer                                                        *)
(***************************************************************************)
\* util.convert_param_names(param_names, values): one token per pair of a
\* name and a value, the tokens joined into one suffix
convert_param_names(param_names, values) ==
    Join(<<"_">>, [n \in 1..Min(Len(param_names), Len(values)) |->
                     param_names[n] \o Str(values[n])])

\* faulty variant of Separator: the name is never looked at
SepMutAlways(config) == <<"_", "_">>

\* lines 170-173: use __ only once as a separator
Separator(config) ==
    IF Has(config, "_experiment_name")
       /\ Contains(config["_experiment_name"], <<"_", "_">>)
    THEN <<"_">>
    ELSE <<"_", "_">>

\* line 176: the value stored in _nested_dir
NestDir(config) == config["name"]

extend_config_name(config, param_names, values) ==
    LET _converted_name == convert_param_names(param_names, values)
        sep == Separator(config)
    IN Set(Set(config, "_experiment_name",
               config["_experiment_name"] \o sep \o _converted_name),
           "_nested_dir", NestDir(config))

(***************************************************************************)
(* Combination Engine                                                      *)
(***************************************************************************)
RECURSIVE InsertAll(_, _, _, _)
\* lines 117-119: insert values[i] at the i-th key-path, for i = n..len
InsertAll(params, tuple_dict, values, n) ==
    IF n > Len(tuple_dict) THEN params
    ELSE InsertAll(insert_deep_dictionary(params, tuple_dict[n].key, values[n]),
                   tuple_dict, values, n + 1)

\* faulty variant of CombineOne: the directive key is not deleted
CombineOneMutKeepKey(config, key, tuple_dict, values) ==
    LET _c2 == IF Has(config, "params") THEN config
               ELSE Set(config, "params", <<>>)
        _c3 == Set(_c2, "params", InsertAll(_c2["params"], tuple_dict, values, 1))
    IN extend_config_name(_c3, ParamNames(tuple_dict), values)

\* faulty variant of CombineOne: only the first key-path is inserted
CombineOneMutFirstOnly(config, key, tuple_dict, values) ==
    LET _c1 == Del(config, key)
        _c2 == IF Has(_c1, "params") THEN _c1 ELSE Set(_c1, "params", <<>>)
        _c3 == IF tuple_dict = <<>> THEN _c2
               ELSE Set(_c2, "params",
                        insert_deep_dictionary(_c2["params"], tuple_dict[1].key,
                                               values[1]))
    IN extend_config_name(_c3, ParamNames(tuple_dict), values)

\* lines 108-122: the config built for one tuple of values
CombineOne(config, key, tuple_dict, values) ==
    LET _c1 == Del(config, key)
        _c2 == IF Has(_c1, "params") THEN _c1 ELSE Set(_c1, "params", <<>>)
        _c3 == Set(_c2, "params", InsertAll(_c2["params"], tuple_dict, values, 1))
    IN extend_config_name(_c3, ParamNames(tuple_dict), values)

\* faulty variant of WarnUnequal: the lengths are never compared
WarnUnequalMutNever(config, key) == FALSE

\* lines 101-104: is the warning logged for this call of params_combine
WarnUnequal(config, key) ==
    LET param_lengths == Values(flatten_dict_to_tuple_keys(config[key]))
    IN key = "list"
       /\ Cardinality({Len(param_lengths[n]) : n \in 1..Len(param_lengths)}) # 1

\* faulty variant of Combinations: the last combination is lost
CombinationsMutDropLast(iter_func, lists) ==
    LET all == IterFunc(iter_func, lists)
    IN IF all = <<>> THEN all ELSE SubSeq(all, 1, Len(all) - 1)

\* line 107: iter_func(*tuple_dict.values())
Combinations(iter_func, lists) == IterFunc(iter_func, lists)

params_combine(config, key, iter_func) ==
    IF iter_func = "None" THEN <<config>>
    ELSE LET tuple_dict == flatten_dict_to_tuple_keys(config[key])
             combos == Combinations(iter_func, Values(tuple_dict))
         IN [n \in 1..Len(combos) |-> CombineOne(config, key, tuple_dict, combos[n])]

(***************************************************************************)
(* Ablative Expander                                                       *)
(***************************************************************************)
\* iterating a python string yields its characters as one-character strings
CharsOf(s) == [n \in 1..Len(s) |-> <<s[n]>>]

\* lines 142-152: the variant of config with val at key-path key
AblativeVariant(config, key, val, param_name) ==
    LET _c1 == IF Has(config, "params") THEN config
               ELSE Set(config, "params", <<>>)
        _c2 == Set(_c1, "params", insert_deep_dictionary(_c1["params"], key, val))
    IN extend_config_name(_c2, CharsOf(param_name), <<val>>)

RECURSIVE AblativeInPlace(_, _, _)
\* the variants when each one is written into the config left by the previous
AblativeInPlace(config, pairs, n) ==
    IF n > Len(pairs) THEN <<>>
    ELSE LET v == AblativeVariant(config, pairs[n].key, pairs[n].val, pairs[n].name)
         IN <<v>> \o AblativeInPlace(v, pairs, n + 1)

\* faulty variant of AblativeOf: the config is not copied for each variant
AblativeOfMutNoCopy(config) ==
    LET tuple_dict == flatten_dict_to_tuple_keys(config["ablative"])
        _param_names == ParamNames(tuple_dict)
    IN AblativeInPlace(config,
          Concat([i \in 1..Len(tuple_dict) |->
                    [v \in 1..Len(tuple_dict[i].vals) |->
                       [key |-> tuple_dict[i].key, val |-> tuple_dict[i].vals[v],
                        name |-> _param_names[i]]]]), 1)

\* faulty variant of AblativeOf: only the first key-path is expanded
AblativeOfMutFirstFactor(config) ==
    LET tuple_dict == flatten_dict_to_tuple_keys(config["ablative"])
        _param_names == ParamNames(tuple_dict)
    IN IF tuple_dict = <<>> THEN <<>>
       ELSE [v \in 1..Len(tuple_dict[1].vals) |->
               AblativeVariant(config, tuple_dict[1].key,
                               tuple_dict[1].vals[v], _param_names[1])]

\* lines 137-152: all variants of one config
AblativeOf(config) ==
    LET tuple_dict == flatten_dict_to_tuple_keys(config["ablative"])
        _param_names == ParamNames(tuple_dict)
    IN Concat([i \in 1..Len(tuple_dict) |->
                 [v \in 1..Len(tuple_dict[i].vals) |->
                    AblativeVariant(config, tuple_dict[i].key,
                                    tuple_dict[i].vals[v], _param_names[i])]])

ablative_expand(conf_list) ==
    Concat([n \in 1..Len(conf_list) |-> AblativeOf(conf_list[n])])

(***************************************************************************)
(* Expansion Driver                                                        *)
(***************************************************************************)
\* lines 46-53: defaults of the bookkeeping fields
SetDefaults(config) ==
    LET c1 == IF Has(config, "_base_path") THEN config
              ELSE Set(config, "_base_path", config["path"])
        c2 == IF Has(c1, "_experiment_name") THEN c1
              ELSE Set(c1, "_experiment_name", c1["name"])
    IN IF Has(c2, "_nested_dir") THEN c2 ELSE Set(c2, "_nested_dir", <<>>)

\* os.path.join of path components; an empty component adds nothing
PathJoin(parts) == SelectSeq(parts, LAMBDA c : c # <<>>)

\* conf_path.normalize_expanded_paths: path and log_path follow from
\* _base_path, _nested_dir and _experiment_name; order is preserved
normalize_expanded_paths(configs) ==
    [n \in 1..Len(configs) |->
        LET c == configs[n]
            path == PathJoin(c["_base_path"]
                             \o <<c["_nested_dir"], c["_experiment_name"]>>)
        IN Set(Set(c, "path", path), "log_path", path \o << <<"l", "o", "g">> >>)]

(***************************************************************************)
(* Repetition Unroller                                                     *)
(***************************************************************************)
RepDir(r) == <<"r", "e", "p", "_">> \o Pad2(r)

\* faulty variant of UnrollConfig: _rep_idx is not looked at
UnrollConfigMutIgnoreIdx(config) ==
    [r1 \in 1..config["repetitions"] |->
        Set(Set(config, "_rep_idx", r1 - 1),
            "_rep_log_path", config["log_path"] \o <<RepDir(r1 - 1)>>)]

\* faulty variant of UnrollConfig: the indices start at 1
UnrollConfigMutFromOne(config) ==
    IF Has(config, "_rep_idx") THEN <<config>>
    ELSE [r1 \in 1..config["repetitions"] |->
            Set(Set(config, "_rep_idx", r1),
                "_rep_log_path", config["log_path"] \o <<RepDir(r1)>>)]

\* lines 192-201: the records appended for one config
UnrollConfig(config) ==
    IF Has(config, "_rep_idx") THEN <<config>>
    ELSE [r1 \in 1..config["repetitions"] |->
            Set(Set(config, "_rep_idx", r1 - 1),
                "_rep_log_path", config["log_path"] \o <<RepDir(r1 - 1)>>)]

unroll_exp_reps(configs) ==
    Concat([n \in 1..Len(configs) |-> UnrollConfig(configs[n])])

(***************************************************************************)
(* Inputs: the templates the expansion is run on                           *)
(***************************************************************************)
Ka == <<"a">>
Kb == <<"b">>
Kc == <<"c">>
Ko == <<"o">>
Klr == <<"l", "r">>

Ramp(n, off) == [i \in 1..n |-> i + off]
Same(n) == [i \in 1..n |-> 1]
NoKey == [x \in {} |-> 0]

Leaf(k, l) == [k |-> k, leaf |-> l]
Sub(k, d) == [k |-> k, sub |-> d]

\* grid candidate lists: 1,2,.. and lists that repeat a value
GridRamps == {Ramp(n, 0) : n \in 0..MaxGridLen}
GridLists == GridRamps \cup {Same(n) : n \in 2..MaxGridLen}
GridBlocks ==
    {<<>>} \cup {<<Leaf(Ka, l)>> : l \in GridLists}
    \cup {<<Leaf(Ka, l), Sub(Ko, <<Leaf(Klr, Ramp(MaxGridLen, 0))>>)>> :
            l \in GridLists}

\* list value lists: 4,5,..
ListLists == {Ramp(n, 3) : n \in 0..MaxListLen}
ListBlocks ==
    {<<>>} \cup {<<Leaf(Kb, l)>> : l \in ListLists}
    \cup {<<Leaf(Kb, l1), Leaf(Ka, l2)>> : l1 \in ListLists, l2 \in ListLists}

\* ablative candidate lists: 1,2,..
AblLists == {Ramp(n, 0) : n \in 0..MaxAblLen}
AblBlocks ==
    {<<>>} \cup {<<Leaf(Ka, l)>> : l \in AblLists}
    \cup {<<Leaf(Kc, l), Leaf(Ko, Ramp(MaxAblLen, 0))>> : l \in AblLists}

FixedParams == (<<Ka>> :> 1) @@ (<<Ko, Klr>> :> 5)

Names == { <<"e">>, <<"e", "_", "_", "x">> }
OutPath == << <<"o", "u", "t">> >>

Opt(k, S) == {NoKey} \cup {(k :> v) : v \in S}

Template(nm, g, l, a, p) ==
    [name |-> nm, path |-> OutPath, repetitions |-> 2] @@ g @@ l @@ a @@ p

\* a second template of the same file, with both grid and list
Other ==
    [name |-> <<"f">>, path |-> OutPath, repetitions |-> 1,
     list |-> <<Leaf(Kb, <<4, 5>>)>>, grid |-> <<Leaf(Ka, <<1, 2>>)>>]

\* the template alone, or next to the second template
Arrangements == {"alone", "first", "second"}
Arrange(how, t) ==
    IF how = "alone" THEN <<t>>
    ELSE IF how = "first" THEN <<t, Other>> ELSE <<Other, t>>

(***************************************************************************)
(* expand_experiments                                                      *)
(***************************************************************************)
\* the state at the start of the loop, line 38
Start ==
    /\ experiment_configs = templates
    /\ idx = 1
    /\ expanded_config_list = <<>>
    /\ warnings = <<>>
    /\ pc = "loop"
    /\ result = <<>>
    /\ exp_configs = <<>>
    /\ once = <<>>
    /\ twice = <<>>
    /\ upc = "idle"

Init ==
    /\ \E nm \in Names, g \in Opt("grid", GridBlocks), l \in Opt("list", ListBlocks),
          a \in Opt("ablative", AblBlocks), p \in Opt("params", {FixedParams}),
          how \in Arrangements :
            templates = Arrange(how, Template(nm, g, l, a, p))
    /\ Start

\* one template with both grid and list and no ablative block
CombinedGrids == {<<Leaf(Ka, l)>> : l \in GridRamps}

InitCombined ==
    /\ \E nm \in Names, g \in CombinedGrids, l \in ListBlocks :
            templates = <<Template(nm, "grid" :> g, "list" :> l, NoKey, NoKey)>>
    /\ Start

Both(config) == Has(config, "grid") /\ Has(config, "list")

\* lines 40-62: one iteration of the loop for a config with grid and list
CombinedStep ==
    /\ pc = "loop"
    /\ idx <= Len(experiment_configs)
    /\ \E config \in {SetDefaults(experiment_configs[idx])} :
          /\ Both(config)
          /\ experiment_configs' =
                [experiment_configs EXCEPT ![idx] = config]
                \o params_combine(config, "list", "zip")
          /\ warnings' = IF WarnUnequal(config, "list")
                         THEN Append(warnings, config["name"]) ELSE warnings
    /\ idx' = idx + 1
    /\ UNCHANGED <<templates, expanded_config_list, pc, result,
                   exp_configs, once, twice, upc>>

\* lines 64-70: the directive in effect
KeyOf(config) ==
    IF Has(config, "list") THEN "list"
    ELSE IF Has(config, "grid") THEN "grid" ELSE "None"
IterFuncOf(config) ==
    IF Has(config, "list") THEN "zip"
    ELSE IF Has(config, "grid") THEN "product" ELSE "None"

\* lines 72-77: the expansion of a config that does not have both grid and list
Expansion(config) ==
    LET combined == params_combine(config, KeyOf(config), IterFuncOf(config))
    IN IF Has(config, "ablative")
       THEN combined \o ablative_expand(combined)
       ELSE combined

\* lines 40-53, 64-77: one iteration of the loop for any other config
SingleStep ==
    /\ pc = "loop"
    /\ idx <= Len(experiment_configs)
    /\ \E config \in {SetDefaults(experiment_configs[idx])} :
          /\ ~Both(config)
          /\ experiment_configs' = [experiment_configs EXCEPT ![idx] = config]
          /\ warnings' = IF KeyOf(config) # "None" /\ WarnUnequal(config, KeyOf(config))
                         THEN Append(warnings, config["name"]) ELSE warnings
          /\ expanded_config_list' = expanded_config_list \o Expansion(config)
    /\ idx' = idx + 1
    /\ UNCHANGED <<templates, pc, result, exp_configs, once, twice, upc>>

\* line 78: the loop is over, expand_experiments returns
Return ==
    /\ pc = "loop"
    /\ idx > Len(experiment_configs)
    /\ result' = normalize_expanded_paths(expanded_config_list)
    /\ pc' = "done"
    /\ UNCHANGED <<templates, experiment_configs, idx, expanded_config_list,
                   warnings, exp_configs, once, twice, upc>>

Next == CombinedStep \/ SingleStep \/ Return

Spec == Init /\ [][Next]_vars

\* the expansion of templates with grid and list; the program is sequential,
\* a step that can be taken is taken
SpecCombined == InitCombined /\ [][Next]_vars /\ WF_vars(Next)

(***************************************************************************)
(* unroll_exp_reps called on its own, and on its own output                *)
(***************************************************************************)
LogPath == << <<"o", "u", "t">>, <<"l", "o", "g">> >>
RepChoices == (0..MaxReps) \cup {11}

Unrollables ==
    {[name |-> nm, repetitions |-> r, log_path |-> LogPath] @@ i :
        nm \in {<<"e">>, <<"f">>}, r \in RepChoices,
        i \in {NoKey} \cup
              {[_rep_idx |-> x, _rep_log_path |-> LogPath \o <<RepDir(x)>>] :
                 x \in 0..1}}

RECURSIVE SeqsUpTo(_, _)
SeqsUpTo(S, n) ==
    IF n = 0 THEN {<<>>}
    ELSE LET shorter == SeqsUpTo(S, n - 1)
         IN shorter \cup {Append(q, x) : q \in {y \in shorter : Len(y) = n - 1}, x \in S}

InitUnroll ==
    /\ exp_configs \in SeqsUpTo(Unrollables, MaxConfigs)
    /\ once = <<>>
    /\ twice = <<>>
    /\ upc = "start"
    /\ templates = <<>>
    /\ experiment_configs = <<>>
    /\ idx = 1
    /\ expanded_config_list = <<>>
    /\ warnings = <<>>
    /\ pc = "idle"
    /\ result = <<>>

UnrollOnce ==
    /\ upc = "start"
    /\ once' = unroll_exp_reps(exp_configs)
    /\ upc' = "once"
    /\ UNCHANGED <<templates, experiment_configs, idx, expanded_config_list,
                   warnings, pc, result, exp_configs, twice>>

UnrollTwice ==
    /\ upc = "once"
    /\ twice' = unroll_exp_reps(once)
    /\ upc' = "twice"
    /\ UNCHANGED <<templates, experiment_configs, idx, expanded_config_list,
                   warnings, pc, result, exp_configs, once>>

NextUnroll == UnrollOnce \/ UnrollTwice

SpecUnroll == InitUnroll /\ [][NextUnroll]_vars

(***************************************************************************)
(* What the properties speak about                                         *)
(***************************************************************************)
Expanded == pc = "done"

TemplateIds == 1..Len(templates)

\* the records of the result that stem from template T
Recs(T) == SelectSeq(result, LAMBDA r : r["name"] = T["name"])

BlockOf(T, key) == IF Has(T, key) THEN flatten_dict_to_tuple_keys(T[key]) ELSE <<>>
PathsIn(td) == {td[n].key : n \in 1..Len(td)}
FixedOf(T) == IF Has(T, "params") THEN T["params"] ELSE NoKey
ParamsOf(r) == IF Has(r, "params") THEN r["params"] ELSE NoKey

RECURSIVE ProdLen(_)
ProdLen(td) == IF td = <<>> THEN 1 ELSE Len(Head(td).vals) * ProdLen(Tail(td))

RECURSIVE SumLen(_)
SumLen(td) == IF td = <<>> THEN 0 ELSE Len(Head(td).vals) + SumLen(Tail(td))

Lengths(td) == {Len(td[n].vals) : n \in 1..Len(td)}
Shortest(td) == CHOOSE x \in Lengths(td) : \A y \in Lengths(td) : x <= y

\* The directives of template T and its numbers: n list positions, g grid
\* tuples, M = m1+..+mj ablative (key-path, value) pairs in flatten order.
\* The records of T come in groups: one group per list position when T has
\* grid and list (each re-queued config is expanded on its own), one group
\* otherwise; a group is gb base records followed by the M variants of the
\* first base record, of the second, ..
Info(T) ==
    LET lt == BlockOf(T, "list")
        gt == BlockOf(T, "grid")
        at == BlockOf(T, "ablative")
        n == IF ~Has(T, "list") THEN 1
             ELSE IF lt = <<>> THEN 0 ELSE Shortest(lt)
        g == ProdLen(gt)
        gb == IF Both(T) THEN g ELSE n * g
    IN [lt |-> lt, gt |-> gt, at |-> at, n |-> n, g |-> g, M |-> SumLen(at),
        gb |-> gb, gs |-> gb * (1 + SumLen(at)),
        hasList |-> Has(T, "list"), hasGrid |-> Has(T, "grid"),
        hasAbl |-> Has(T, "ablative"), fixed |-> FixedOf(T),
        stride |-> [k \in 1..Len(gt) |-> ProdLen(SubSeq(gt, k + 1, Len(gt)))],
        pairs |-> Concat([i \in 1..Len(at) |->
                     [v \in 1..Len(at[i].vals) |->
                        [key |-> at[i].key, val |-> at[i].vals[v],
                         name |-> Join(<<".">>, at[i].key)]]])]

\* the values of list position li, and of the gj-th tuple of the cross-product
\* (the first key-path varies slowest)
ListTuple(I, li) == [k \in 1..Len(I.lt) |-> I.lt[k].vals[li]]
GridTuple(I, gj) ==
    [k \in 1..Len(I.gt) |->
        I.gt[k].vals[(((gj - 1) \div I.stride[k]) % Len(I.gt[k].vals)) + 1]]

\* where the m-th record of the template comes from: list position li, grid
\* tuple gj (0: no such directive), ablative pair ab (0: a base record), and
\* the position of the base record it is a variant of
Prov(I, m) ==
    LET grp == (m - 1) \div I.gs
        off == (m - 1) % I.gs
        isBase == off < I.gb
        c == IF isBase THEN off ELSE (off - I.gb) \div I.M
        q == grp * I.gb + c
    IN [li |-> IF I.hasList THEN (q \div I.g) + 1 ELSE 0,
        gj |-> IF I.hasGrid THEN (q % I.g) + 1 ELSE 0,
        ab |-> IF isBase THEN 0 ELSE ((off - I.gb) % I.M) + 1,
        base |-> grp * I.gs + c + 1]

\* the params differ at these key-paths (present in one only, or other value)
Diff(p1, p2) ==
    {t \in DOMAIN p1 \cup DOMAIN p2 :
        ~(t \in DOMAIN p1 /\ t \in DOMAIN p2 /\ p1[t] = p2[t])}

Covered(paths, p) == \E t \in paths : IsPrefix(t, p)

Binds(r, t, v) == t \in DOMAIN ParamsOf(r) /\ ParamsOf(r)[t] = v

(***************************************************************************)
(* C1 - grid cardinality                                                   *)
(***************************************************************************)
OnlyGrid(T) == Has(T, "grid") /\ ~Has(T, "list") /\ ~Has(T, "ablative")

\* the tuples of values that the records bind to the grid key-paths
\* (<<v>> for a key-path bound to v, <<>> for one that is not bound)
GridBindings(gt, recs) ==
    [m \in 1..Len(recs) |->
        [k \in 1..Len(gt) |->
            IF gt[k].key \in DOMAIN ParamsOf(recs[m])
            THEN <<ParamsOf(recs[m])[gt[k].key]>> ELSE <<>>]]

PairwiseDistinct(q) == \A i, j \in 1..Len(q) : i < j => q[i] # q[j]

NoRepeatedCandidate(gt) == \A k \in 1..Len(gt) : PairwiseDistinct(gt[k].vals)

\* C1 as claimed: a template with only a grid over candidate lists of lengths
\* n1..nk expands to n1*..*nk records, and every two of them bind a different
\* tuple of values to the grid key-paths.
C1_Claimed ==
    Expanded =>
        \A i \in TemplateIds :
            LET T == templates[i]
                gt == BlockOf(T, "grid")
                recs == Recs(T)
            IN OnlyGrid(T) =>
                /\ Len(recs) = ProdLen(gt)
                /\ PairwiseDistinct(GridBindings(gt, recs))

\* C1 amended: the count is n1*..*nk always; every two records bind a
\* different tuple of values when no candidate list repeats a value.
C1_GridCardinality ==
    Expanded =>
        \A i \in TemplateIds :
            LET T == templates[i]
                gt == BlockOf(T, "grid")
                recs == Recs(T)
            IN OnlyGrid(T) =>
                /\ Len(recs) = ProdLen(gt)
                /\ NoRepeatedCandidate(gt) => PairwiseDistinct(GridBindings(gt, recs))

C1_Witness ==
    /\ Expanded
    /\ \E i \in TemplateIds :
          LET T == templates[i]
              gt == BlockOf(T, "grid")
          IN /\ OnlyGrid(T)
             /\ NoRepeatedCandidate(gt)
             /\ Len(gt) = 2
             /\ ProdLen(gt) >= 4
             /\ Len(Recs(T)) = ProdLen(gt)

(***************************************************************************)
(* C2 - list cardinality and the warning                                   *)
(***************************************************************************)
OnlyList(T) == Has(T, "list") /\ ~Has(T, "grid") /\ ~Has(T, "ablative")

WarnCount(T) == Len(SelectSeq(warnings, LAMBDA w : w = T["name"]))

GridAndList(T) ==
    /\ Has(T, "grid") /\ Has(T, "list") /\ ~Has(T, "ablative")
    /\ Cardinality(Lengths(BlockOf(T, "list"))) = 1

HoldsGrid(I, r, gj) ==
    LET vals == GridTuple(I, gj)
    IN \A k \in 1..Len(I.gt) : Binds(r, I.gt[k].key, vals[k])

HoldsList(I, r, li, except) ==
    \A k \in 1..Len(I.lt) :
        ~Covered(except, I.lt[k].key) => Binds(r, I.lt[k].key, I.lt[k].vals[li])

\* C3 as claimed: with list (all value lists of length n) and grid (g tuples)
\* there are n*g records, one for each pair of a list position and a grid
\* tuple, whose params hold the list values of the position and the grid
\* values of the tuple.
C3_Claimed ==
    Expanded =>
        \A i \in TemplateIds :
            LET T == templates[i]
                I == Info(T)
                recs == Recs(T)
            IN GridAndList(T) =>
                /\ Len(recs) = I.n * I.g
                /\ \A li \in 1..I.n, gj \in 1..I.g :
                      \E m \in 1..Len(recs) :
                          HoldsGrid(I, recs[m], gj) /\ HoldsList(I, recs[m], li, {})

C3_Records ==
    \A i \in TemplateIds :
        LET T == templates[i]
            I == Info(T)
            recs == Recs(T)
        IN GridAndList(T) =>
            /\ Len(recs) = I.n * I.g
            /\ \A li \in 1..I.n, gj \in 1..I.g :
                  LET r == recs[(li - 1) * I.g + gj]
                  IN HoldsGrid(I, r, gj) /\ HoldsList(I, r, li, PathsIn(I.gt))

\* C3 amended: the work list is drained after finitely many steps, and there
\* are n*g records, one for each pair of a list position and a grid tuple,
\* whose params hold the grid values of the tuple and the list values of the
\* position at every list key-path that is not at or under a grid key-path
\* (there the grid value replaces the list value).
C3_GridTimesList == [](Expanded => C3_Records) /\ <>Expanded

C3_Witness ==
    /\ Expanded
    /\ \E i \in TemplateIds :
          LET T == templates[i]
              I == Info(T)
          IN /\ GridAndList(T)
             /\ I.n = 2
             /\ I.g >= 2
             /\ Len(experiment_configs) > Len(templates)
             /\ Len(Recs(T)) = 2 * I.g
             /\ \E t \in PathsIn(I.lt) : ~Covered(PathsIn(I.gt), t)

(***************************************************************************)
(* C4 - ablative additivity                                                *)
(***************************************************************************)
\* the params of the un-ablated record of list position li and grid tuple gj
BaseParams(I, li, gj) ==
    LET withList == IF li = 0 THEN I.fixed
                    ELSE InsertAll(I.fixed, I.lt, ListTuple(I, li), 1)
    IN IF gj = 0 THEN withList ELSE InsertAll(withList, I.gt, GridTuple(I, gj), 1)

\* C4: a template with an ablative block (factor cardinalities m1..mj) whose
\* grid/list stage yields b base records expands to b + b*(m1+..+mj) records:
\* the b base records, un-ablated, and for every base record, factor and
\* factor value one variant that binds the factor to the value.
C4_AblativeAdditivity ==
    Expanded =>
        \A i \in TemplateIds :
            LET T == templates[i]
                I == Info(T)
                recs == Recs(T)
                b == I.n * I.g
            IN I.hasAbl =>
                /\ Len(recs) = b + b * I.M
                /\ \A m \in 1..Len(recs) :
                      LET pv == Prov(I, m)
                      IN IF pv.ab # 0
                         THEN Binds(recs[m], I.pairs[pv.ab].key, I.pairs[pv.ab].val)
                         ELSE ParamsOf(recs[m]) = BaseParams(I, pv.li, pv.gj)

C4_Witness ==
    /\ Expanded
    /\ \E i \in TemplateIds :
          LET T == templates[i]
              I == Info(T)
          IN /\ I.hasAbl
             /\ I.n * I.g >= 2
             /\ Len(I.at) = 2
             /\ I.M >= 3
             /\ Len(Recs(T)) = I.n * I.g * (1 + I.M)

(***************************************************************************)
(* C7 - the key-paths of params                                            *)
(***************************************************************************)
Declared(I) == PathsIn(I.lt) \cup PathsIn(I.gt) \cup PathsIn(I.at) \cup DOMAIN I.fixed

\* key-paths D after values are inserted at key-paths new
After(D, new) == {p \in D : ~Covered(new, p)} \cup new

\* the key-paths of the record with provenance pv
ExpectedPaths(I, pv) ==
    LET base == After(After(DOMAIN I.fixed, PathsIn(I.lt)), PathsIn(I.gt))
    IN IF pv.ab = 0 THEN base ELSE After(base, {I.pairs[pv.ab].key})

\* C7 as claimed: the params of every record contain exactly the key-paths
\* declared by grid, list and ablative and the fixed params of its template,
\* each bound to one concrete value.
C7_Claimed ==
    Expanded =>
        \A i \in TemplateIds :
            LET I == Info(templates[i])
                recs == Recs(templates[i])
            IN \A m \in 1..Len(recs) :
                  /\ DOMAIN ParamsOf(recs[m]) = Declared(I)
                  /\ \A t \in DOMAIN ParamsOf(recs[m]) : ParamsOf(recs[m])[t] \in Nat

\* C7 amended: the params of every record contain exactly the fixed-param,
\* list and grid key-paths of its template, less those at or under a key-path
\* written later (list, then grid, then the ablated key-path), and of the
\* ablative key-paths only the one the record is a variant of - none for a
\* base record; each is bound to one concrete value.
C7_ParamsKeyPaths ==
    Expanded =>
        \A i \in TemplateIds :
            LET I == Info(templates[i])
                recs == Recs(templates[i])
            IN \A m \in 1..Len(recs) :
                  /\ DOMAIN ParamsOf(recs[m]) = ExpectedPaths(I, Prov(I, m))
                  /\ \A t \in DOMAIN ParamsOf(recs[m]) : ParamsOf(recs[m])[t] \in Nat

C7_Witness ==
    /\ Expanded
    /\ \E i \in TemplateIds :
          LET I == Info(templates[i])
              recs == Recs(templates[i])
          IN /\ I.hasAbl /\ I.hasGrid /\ I.hasList
             /\ Len(I.at) = 2 /\ Len(I.gt) = 2 /\ Len(I.lt) = 2
             /\ DOMAIN I.fixed # {}
             /\ \E m \in 1..Len(recs) :
                   /\ Prov(I, m).ab # 0
                   /\ DOMAIN ParamsOf(recs[m]) # Declared(I)
                   /\ DOMAIN ParamsOf(recs[Prov(I, m).base]) # Declared(I)

(***************************************************************************)
(* C8 - a variant and its base record                                      *)
(***************************************************************************)
\* C8 as claimed: the params of a variant differ from the params of its base
\* record in exactly one key-path, the ablated one, which is bound to the
\* chosen value.
C8_Claimed ==
    Expanded =>
        \A i \in TemplateIds :
            LET I == Info(templates[i])
                recs == Recs(templates[i])
            IN I.hasAbl =>
                \A m \in 1..Len(recs) :
                    LET pv == Prov(I, m)
                    IN pv.ab # 0 =>
                        /\ Binds(recs[m], I.pairs[pv.ab].key, I.pairs[pv.ab].val)
                        /\ Diff(ParamsOf(recs[m]), ParamsOf(recs[pv.base]))
                              = {I.pairs[pv.ab].key}

\* C8 amended: the params of a variant differ from the params of its base
\* record only at or under the ablated key-path: that key-path is bound to
\* the chosen value, in place of the value or subtree of the base record (so
\* the two are equal when the base record binds it to that value already),
\* and every key-path not at or under it is present or absent exactly as in
\* the base record.
C8_OneKeyPath ==
    Expanded =>
        \A i \in TemplateIds :
            LET I == Info(templates[i])
                recs == Recs(templates[i])
            IN I.hasAbl =>
                \A m \in 1..Len(recs) :
                    LET pv == Prov(I, m)
                        key == I.pairs[pv.ab].key
                    IN pv.ab # 0 =>
                        /\ Binds(recs[m], key, I.pairs[pv.ab].val)
                        /\ \A t \in Diff(ParamsOf(recs[m]), ParamsOf(recs[pv.base])) :
                              IsPrefix(key, t)
                        /\ \A t \in DOMAIN ParamsOf(recs[m]) : IsPrefix(key, t) => t = key

C8_Witness ==
    /\ Expanded
    /\ \E i \in TemplateIds :
          LET I == Info(templates[i])
              recs == Recs(templates[i])
          IN /\ I.hasAbl
             /\ Len(I.at) = 2
             /\ \E m \in 1..Len(recs) :
                   /\ Prov(I, m).ab > Len(I.at[1].vals)
                   /\ ParamsOf(recs[Prov(I, m).base]) # NoKey
                   /\ Diff(ParamsOf(recs[m]), ParamsOf(recs[Prov(I, m).base]))
                         = {I.pairs[Prov(I, m).ab].key}

(***************************************************************************)
(* C9 - separators and _nested_dir                                         *)
(***************************************************************************)
\* the suffixes appended to the name of the record with provenance pv, in
\* the order of the passes: list, grid, ablative
Suffixes(I, pv) ==
    (IF pv.li # 0
     THEN <<convert_param_names(ParamNames(I.lt), ListTuple(I, pv.li))>> ELSE <<>>)
    \o (IF pv.gj # 0
        THEN <<convert_param_names(ParamNames(I.gt), GridTuple(I, pv.gj))>> ELSE <<>>)
    \o (IF pv.ab # 0
        THEN <<convert_param_names(CharsOf(I.pairs[pv.ab].name), <<I.pairs[pv.ab].val>>)>>
        ELSE <<>>)

RECURSIVE Named(_, _, _, _)
\* name, extended by the suffixes: the first with separator first, the
\* others with separator later
Named(name, sfx, first, later) ==
    IF sfx = <<>> THEN name
    ELSE Named(name \o first \o Head(sfx), Tail(sfx), later, later)

NestedDirOk(T, r, sfx) ==
    IF sfx # <<>> THEN r["_nested_dir"] = T["name"]
    ELSE r["_nested_dir"] = <<>> /\ r["_experiment_name"] = T["name"]

\* C9 as claimed: the first suffix is appended to _experiment_name with '__'
\* and every later one with '_'; a record that went through a pass has
\* _nested_dir = name, a record that went through none keeps
\* _experiment_name = name and _nested_dir = ''.
C9_Claimed ==
    Expanded =>
        \A i \in TemplateIds :
            LET T == templates[i]
                I == Info(T)
                recs == Recs(T)
            IN \A m \in 1..Len(recs) :
                  LET sfx == Suffixes(I, Prov(I, m))
                  IN /\ recs[m]["_experiment_name"]
                          = Named(T["name"], sfx, <<"_", "_">>, <<"_">>)
                     /\ NestedDirOk(T, recs[m], sfx)

\* C9 amended: the first suffix is appended with '__' unless the name of the
\* template contains '__' already, in which case it is appended with '_' as
\* well; every later suffix is appended with '_', so '__' is used as a
\* separator at most once.  _nested_dir and the name of a record that went
\* through no pass are as claimed.
C9_Separators ==
    Expanded =>
        \A i \in TemplateIds :
            LET T == templates[i]
                I == Info(T)
                recs == Recs(T)
                first == IF Contains(T["name"], <<"_", "_">>)
                         THEN <<"_">> ELSE <<"_", "_">>
            IN \A m \in 1..Len(recs) :
                  LET sfx == Suffixes(I, Prov(I, m))
                  IN /\ recs[m]["_experiment_name"]
                          = Named(T["name"], sfx, first, <<"_">>)
                     /\ NestedDirOk(T, recs[m], sfx)

C9_Witness ==
    /\ Expanded
    /\ \E i \in TemplateIds :
          LET T == templates[i]
              I == Info(T)
              recs == Recs(T)
          IN /\ ~Contains(T["name"], <<"_", "_">>)
             /\ I.hasList /\ I.hasGrid /\ I.hasAbl
             /\ \E m \in 1..Len(recs) :
                   /\ Len(Suffixes(I, Prov(I, m))) = 3
                   /\ recs[m]["_nested_dir"] = T["name"]
                   /\ Contains(recs[m]["_experiment_name"], T["name"] \o <<"_", "_">>)

(***************************************************************************)
(* C10 - the directive keys of the records                                 *)
(***************************************************************************)
\* C10 as claimed: no record of the result has a grid, list or ablative key.
C10_Claimed ==
    Expanded =>
        \A m \in 1..Len(result) :
            ~Has(result[m], "grid") /\ ~Has(result[m], "list")
            /\ ~Has(result[m], "ablative")

\* C10 amended: no record of the result has a grid or a list key; the
\* ablative key is not removed: every record of a template with an ablative
\* block, base record or variant, carries that block unchanged.
C10_DirectivesRemoved ==
    Expanded =>
        \A i \in TemplateIds :
            LET T == templates[i]
                recs == Recs(T)
            IN \A m \in 1..Len(recs) :
                  /\ ~Has(recs[m], "grid")
                  /\ ~Has(recs[m], "list")
                  /\ Has(recs[m], "ablative") <=> Has(T, "ablative")
                  /\ Has(T, "ablative") => recs[m]["ablative"] = T["ablative"]

C10_Witness ==
    /\ Expanded
    /\ \E i \in TemplateIds :
          LET T == templates[i]
              recs == Recs(T)
          IN /\ Has(T, "grid") /\ Has(T, "list") /\ Has(T, "ablative")
             /\ Len(recs) > 1
             /\ \E m \in 1..Len(recs) : ~Has(recs[m], "grid") /\ ~Has(recs[m], "list")

(***************************************************************************)
(* C5, C6 - repetition unrolling                                           *)
(***************************************************************************)
\* the number of records a config is unrolled to
Count(c) == IF Has(c, "_rep_idx") THEN 1 ELSE c["repetitions"]

RECURSIVE Offset(_, _)
\* the number of records the configs before the k-th are unrolled to
Offset(cs, k) == IF k = 1 THEN 0 ELSE Offset(cs, k - 1) + Count(cs[k - 1])

\* 'rep_' and the index in two digits
RepName(r) ==
    <<"r", "e", "p", "_">>
    \o (IF r < 10 THEN <<"0", DigitChars[r + 1]>>
        ELSE <<DigitChars[(r \div 10) + 1], DigitChars[(r % 10) + 1]>>)

\* C5: every config with repetitions = R and no repetition index becomes R
\* records with indices 0..R-1 and log path <log_path>/rep_{r:02d}; the
\* output keeps the order of the configs, the records of one config are
\* contiguous and in ascending index order.
C5_Unroll ==
    upc # "start" =>
        /\ Len(once) = Offset(exp_configs, Len(exp_configs) + 1)
        /\ \A k \in 1..Len(exp_configs) :
              LET c == exp_configs[k]
              IN ~Has(c, "_rep_idx") =>
                    \A r \in 0..(c["repetitions"] - 1) :
                        LET o == once[Offset(exp_configs, k) + r + 1]
                        IN /\ DOMAIN o = DOMAIN c \cup {"_rep_idx", "_rep_log_path"}
                           /\ o["_rep_idx"] = r
                           /\ o["_rep_log_path"] = Append(c["log_path"], RepName(r))
                           /\ \A f \in DOMAIN c : o[f] = c[f]

C5_Witness ==
    /\ upc # "start"
    /\ Len(exp_configs) = 2
    /\ ~Has(exp_configs[1], "_rep_idx") /\ exp_configs[1]["repetitions"] = 2
    /\ ~Has(exp_configs[2], "_rep_idx") /\ exp_configs[2]["repetitions"] = 11
    /\ Len(once) = 13
    /\ once[13]["_rep_log_path"][3] = <<"r", "e", "p", "_", "1", "0">>

\* C6: a record that carries _rep_idx is passed through unchanged as exactly
\* one record, and unrolling the output of unroll_exp_reps changes nothing.
C6_Idempotent ==
    /\ upc # "start" =>
          /\ Len(once) = Offset(exp_configs, Len(exp_configs) + 1)
          /\ \A k \in 1..Len(exp_configs) :
                Has(exp_configs[k], "_rep_idx") =>
                    once[Offset(exp_configs, k) + 1] = exp_configs[k]
    /\ upc = "twice" => twice = once

C6_Witness ==
    /\ upc = "twice"
    /\ Len(exp_configs) = 2
    /\ Has(exp_configs[1], "_rep_idx") /\ exp_configs[1]["repetitions"] = 2
    /\ ~Has(exp_configs[2], "_rep_idx") /\ exp_configs[2]["repetitions"] = 2
    /\ Len(twice) = 3

====
